---- MODULE Spec2Model ----
(***************************************************************************)
(* resolveHref of packages/next/src/shared/lib/router/utils/resolve-href.ts *)
(* as a state machine.  A JavaScript string is a sequence of one-character  *)
(* strings, so that slicing, splitting, matching, URL parsing and           *)
(* serialisation are computed character by character.                       *)
(***************************************************************************)
EXTENDS Integers, Sequences, FiniteSets, TLC

\* ------------------------------------------------------------------------
\* Characters
\* ------------------------------------------------------------------------

LowerSeq == << "a","b","c","d","e","f","g","h","i","j","k","l","m",
               "n","o","p","q","r","s","t","u","v","w","x","y","z" >>

UpperSeq == << "A","B","C","D","E","F","G","H","I","J","K","L","M",
               "N","O","P","Q","R","S","T","U","V","W","X","Y","Z" >>

DigitSeq == << "0","1","2","3","4","5","6","7","8","9" >>

Range(f) == { f[i] : i \in DOMAIN f }

\* [a-zA-Z]
Alpha == Range(LowerSeq) \cup Range(UpperSeq)

\* \d
Digit == Range(DigitSeq)

AlphaNum == Alpha \cup Digit

\* A lone surrogate code unit (U+D800), the one character of the model that
\* is not a Unicode scalar value.
LoneSurrogate == "<D800>"

ToLower(c) ==
    IF c \in Range(UpperSeq)
    THEN LowerSeq[CHOOSE i \in DOMAIN UpperSeq : UpperSeq[i] = c]
    ELSE c

LowerStr(s) == [ i \in 1..Len(s) |-> ToLower(s[i]) ]

\* ------------------------------------------------------------------------
\* String.prototype operations
\* ------------------------------------------------------------------------

\* s.startsWith(p)
StartsWith(s, p) == Len(s) >= Len(p) /\ SubSeq(s, 1, Len(p)) = p

\* s.endsWith(p)
EndsWith(s, p) == Len(s) >= Len(p) /\ SubSeq(s, Len(s) - Len(p) + 1, Len(s)) = p

\* s.slice(n), n >= 0
Slice(s, n) == SubSeq(s, n + 1, Len(s))

\* s.includes(p)
Contains(s, p) ==
    \E i \in 1..(Len(s) - Len(p) + 1) : SubSeq(s, i, i + Len(p) - 1) = p

\* 1-based index of the first character of s that is in cs, 0 when none
IndexOfAny(s, cs) ==
    IF \E i \in 1..Len(s) : s[i] \in cs
    THEN CHOOSE i \in 1..Len(s) : s[i] \in cs /\ \A j \in 1..(i - 1) : s[j] \notin cs
    ELSE 0

\* 1-based index of the last character of s that is in cs, 0 when none
LastIndexOfAny(s, cs) ==
    IF \E i \in 1..Len(s) : s[i] \in cs
    THEN CHOOSE i \in 1..Len(s) : s[i] \in cs /\ \A j \in (i + 1)..Len(s) : s[j] \notin cs
    ELSE 0

\* s.split(c) for a set cs of one-character separators
RECURSIVE Split(_, _)
Split(s, cs) ==
    IF IndexOfAny(s, cs) = 0 THEN << s >>
    ELSE << SubSeq(s, 1, IndexOfAny(s, cs) - 1) >> \o Split(Slice(s, IndexOfAny(s, cs)), cs)

\* parts.join(sep)
RECURSIVE Join(_, _)
Join(parts, sep) ==
    IF parts = << >> THEN << >>
    ELSE IF Len(parts) = 1 THEN parts[1]
    ELSE parts[1] \o sep \o Join(Tail(parts), sep)

\* the concatenation of a sequence of strings
Flatten(parts) == Join(parts, << >>)

\* s without the characters in cs
RECURSIVE RemoveChars(_, _)
RemoveChars(s, cs) ==
    IF s = << >> THEN << >>
    ELSE IF s[1] \in cs THEN RemoveChars(Tail(s), cs)
    ELSE << s[1] >> \o RemoveChars(Tail(s), cs)


\* ------------------------------------------------------------------------
\* Percent-encoding (URL Standard, section 1.3) over the modelled characters
\* ------------------------------------------------------------------------

\* The UTF-8 percent-encoding of the non-alphanumeric ASCII characters the
\* model uses.
PctChars == << " ", "#", "%", "&", "'", "+", ",", "/", ":", ";",
               "<", "=", ">", "?", "@", "[", "\\", "]", "^", "{",
               "|", "}", "~", "!", "$", "(", ")" >>

PctCodes == << <<"%","2","0">>, <<"%","2","3">>,
               <<"%","2","5">>, <<"%","2","6">>, <<"%","2","7">>,
               <<"%","2","B">>, <<"%","2","C">>, <<"%","2","F">>,
               <<"%","3","A">>, <<"%","3","B">>, <<"%","3","C">>,
               <<"%","3","D">>, <<"%","3","E">>, <<"%","3","F">>,
               <<"%","4","0">>, <<"%","5","B">>, <<"%","5","C">>,
               <<"%","5","D">>, <<"%","5","E">>,
               <<"%","7","B">>, <<"%","7","C">>, <<"%","7","D">>,
               <<"%","7","E">>, <<"%","2","1">>, <<"%","2","4">>,
               <<"%","2","8">>, <<"%","2","9">> >>

PctOf(c) ==
    IF c \in Range(PctChars)
    THEN PctCodes[CHOOSE i \in DOMAIN PctChars : PctChars[i] = c]
    ELSE << c >>

\* s with the characters of set cs percent-encoded
EncodeSet(s, cs) ==
    Flatten([ i \in 1..Len(s) |-> IF s[i] \in cs THEN PctOf(s[i]) ELSE << s[i] >> ])

FragmentEncodeSet == { " ", "<", ">" }
QueryEncodeSet == { " ", "#", "<", ">" }
SpecialQueryEncodeSet == QueryEncodeSet \cup { "'" }
PathEncodeSet == QueryEncodeSet \cup { "?", "^", "{", "}" }
UserinfoEncodeSet ==
    PathEncodeSet \cup { "/", ":", ";", "=", "@", "[", "\\", "]", "|" }

\* percent-decode: a known escape becomes its character, other text stays
RECURSIVE PercentDecode(_)
PercentDecode(s) ==
    IF s = << >> THEN << >>
    ELSE IF s[1] = "%" /\ Len(s) >= 3
            /\ \E i \in DOMAIN PctCodes : LowerStr(PctCodes[i]) = LowerStr(SubSeq(s, 1, 3))
         THEN << PctChars[CHOOSE i \in DOMAIN PctCodes :
                            LowerStr(PctCodes[i]) = LowerStr(SubSeq(s, 1, 3))] >>
              \o PercentDecode(Slice(s, 3))
         ELSE << s[1] >> \o PercentDecode(Tail(s))

\* encodeURIComponent: everything but A-Z a-z 0-9 - _ . ! ~ * ' ( ) is
\* escaped; a lone surrogate makes it throw URIError.
UriUnreserved == AlphaNum \cup { "-", "_", ".", "!", "~", "*", "'", "(", ")" }

encodeURIComponentThrows(s) == \E i \in 1..Len(s) : s[i] = LoneSurrogate

encodeURIComponent(s) ==
    Flatten([ i \in 1..Len(s) |->
                IF s[i] \in UriUnreserved THEN << s[i] >> ELSE PctOf(s[i]) ])

\* application/x-www-form-urlencoded serialisation of one name or value:
\* everything but A-Z a-z 0-9 * - . _ is escaped, a space becomes "+"
FormEncode(s) ==
    Flatten([ i \in 1..Len(s) |->
                IF s[i] \in AlphaNum \cup { "*", "-", ".", "_" } THEN << s[i] >>
                ELSE IF s[i] = " " THEN << "+" >>
                ELSE PctOf(s[i]) ])

\* ------------------------------------------------------------------------
\* new URL(input, base): the URL Standard's basic URL parser for the cases
\* resolveHref and isLocalURL reach (a base is always given and is an http
\* URL).  A URL record has ok = TRUE; the thrown TypeError is Failure.
\* Hosts are domains of the modelled characters; IPv4 numbers, IPv6
\* addresses, percent-escaped hosts, and the file scheme are not among the
\* modelled inputs.
\* ------------------------------------------------------------------------

Failure == [ ok |-> FALSE ]

SpecialSchemes ==
    { <<"h","t","t","p">>, <<"h","t","t","p","s">>, <<"f","t","p">>,
      <<"w","s">>, <<"w","s","s">> }

\* ASCII tab or newline: removed from the input wherever it stands
TabOrNewline == { "\t", "\n", "\r" }

\* C0 control or space: stripped from both ends of the input
C0OrSpace == TabOrNewline \cup { " " }

RECURSIVE StripLeading(_)
StripLeading(s) ==
    IF s # << >> /\ s[1] \in C0OrSpace THEN StripLeading(Tail(s)) ELSE s

RECURSIVE StripTrailing(_)
StripTrailing(s) ==
    IF s # << >> /\ s[Len(s)] \in C0OrSpace
    THEN StripTrailing(SubSeq(s, 1, Len(s) - 1)) ELSE s

Preprocess(s) == RemoveChars(StripTrailing(StripLeading(s)), TabOrNewline)

\* scheme start state and scheme state: the index of the ":" that ends a
\* scheme, 0 when the input has none
SchemeEndAt(s, i) == IF i > 0 /\ s[i] = ":" THEN i ELSE 0

SchemeEnd(s) ==
    IF s = << >> \/ s[1] \notin Alpha THEN 0
    ELSE SchemeEndAt(s, IndexOfAny(s, (Range(s) \ (AlphaNum \cup { "+", "-", "." }))))

\* forbidden host code points, and "%" (forbidden domain code point once
\* percent-decoding is left out)
ForbiddenHost ==
    { " ", "#", "/", ":", "<", ">", "?", "@", "[", "\\", "]", "^", "|", "%",
      LoneSurrogate }

HexDigit == Digit \cup { "a","b","c","d","e","f","A","B","C","D","E","F" }

\* host parsing of a special URL: failure on an empty host, on a forbidden
\* code point, and on a bracketed host that is no IPv6 address
HostValid(h) ==
    /\ h # << >>
    /\ IF h[1] = "["
       THEN /\ h[Len(h)] = "]"
            /\ Len(h) > 3
            /\ \A i \in 2..(Len(h) - 1) : h[i] \in HexDigit \cup { ":" }
            /\ \E i \in 2..(Len(h) - 2) : h[i] = ":" /\ h[i + 1] = ":"
       ELSE \A i \in 1..Len(h) : h[i] \notin ForbiddenHost

\* the number a string of digits denotes
RECURSIVE DecimalValue(_)
DecimalValue(s) ==
    IF s = << >> THEN 0
    ELSE 10 * DecimalValue(SubSeq(s, 1, Len(s) - 1))
         + ((CHOOSE i \in DOMAIN DigitSeq : DigitSeq[i] = s[Len(s)]) - 1)

RECURSIVE DecimalString(_)
DecimalString(n) ==
    IF n < 10 THEN << DigitSeq[n + 1] >>
    ELSE DecimalString(n \div 10) \o << DigitSeq[(n % 10) + 1] >>

DefaultPort(scheme) ==
    CASE scheme = <<"h","t","t","p">> -> 80
      [] scheme = <<"w","s">> -> 80
      [] scheme = <<"h","t","t","p","s">> -> 443
      [] scheme = <<"w","s","s">> -> 443
      [] scheme = <<"f","t","p">> -> 21
      [] OTHER -> -1

\* port state: digits only, at most 65535
PortValid(portString) ==
    /\ \A i \in 1..Len(portString) : portString[i] \in Digit
    /\ \/ \A i \in 1..Len(portString) : portString[i] = "0"
       \/ /\ Len(portString) <= 5
          /\ DecimalValue(portString) <= 65535

\* the port kept: none (-1) for no port and for the scheme's default port
PortOf(scheme, portString) ==
    IF portString = << >> \/ DecimalValue(portString) = DefaultPort(scheme)
    THEN -1 ELSE DecimalValue(portString)

\* query state and fragment state: q is the index of the first "?" or "#"
\* of s, h the index of the first "#"
ParseTailAt(s, q, h) ==
    [ path |-> IF q = 0 THEN s ELSE SubSeq(s, 1, q - 1),
      hasQuery |-> q > 0 /\ s[q] = "?",
      query |-> IF q > 0 /\ s[q] = "?"
                THEN EncodeSet(SubSeq(s, q + 1, IF h = 0 THEN Len(s) ELSE h - 1),
                               SpecialQueryEncodeSet)
                ELSE << >>,
      hasFragment |-> h > 0,
      fragment |-> IF h > 0 THEN EncodeSet(Slice(s, h), FragmentEncodeSet) ELSE << >> ]

ParseTail(s) == ParseTailAt(s, IndexOfAny(s, { "?", "#" }), IndexOfAny(s, { "#" }))

IsSingleDot(seg) == LowerStr(seg) \in { <<".">>, <<"%","2","e">> }

IsDoubleDot(seg) ==
    LowerStr(seg) \in { <<".",".">>, <<".","%","2","e">>,
                        <<"%","2","e",".">>, <<"%","2","e","%","2","e">> }

\* path state of a special URL: segs holds the segments that the input
\* (each ended by "/" or "\", the last by the end of the path) adds to path
RECURSIVE PathSegments(_, _)
PathSegments(path, segs) ==
    IF segs = << >> THEN path
    ELSE IF IsDoubleDot(segs[1])
    THEN PathSegments(
           (IF path = << >> THEN path ELSE SubSeq(path, 1, Len(path) - 1))
             \o (IF Len(segs) = 1 THEN << << >> >> ELSE << >>),
           Tail(segs))
    ELSE IF IsSingleDot(segs[1])
    THEN PathSegments(path \o (IF Len(segs) = 1 THEN << << >> >> ELSE << >>),
                      Tail(segs))
    ELSE PathSegments(path \o << EncodeSet(segs[1], PathEncodeSet) >>, Tail(segs))

\* a URL with the scheme and authority of auth, the segments of t.path
\* added to path, and the query and fragment of t
ParsePathTail(auth, path, t) ==
    [ ok |-> TRUE, scheme |-> auth.scheme, username |-> auth.username,
      password |-> auth.password, host |-> auth.host, port |-> auth.port,
      path |-> PathSegments(path, Split(t.path, { "/", "\\" })),
      hasQuery |-> t.hasQuery, query |-> t.query,
      hasFragment |-> t.hasFragment, fragment |-> t.fragment ]

\* path state, then query state and fragment state
ParsePath(auth, path, s) == ParsePathTail(auth, path, ParseTail(s))

\* s without its leading slashes and backslashes
\* (special authority ignore slashes state)
RECURSIVE SkipSlashes(_)
SkipSlashes(s) ==
    IF s # << >> /\ s[1] \in { "/", "\\" } THEN SkipSlashes(Tail(s)) ELSE s

\* host state and port state, then the path
ParseHost(scheme, username, password, host, portString, rest) ==
    IF ~HostValid(host) \/ ~PortValid(portString) THEN Failure
    ELSE ParsePath(
           [ scheme |-> scheme,
             username |-> EncodeSet(username, UserinfoEncodeSet),
             password |-> EncodeSet(password, UserinfoEncodeSet),
             host |-> LowerStr(host), port |-> PortOf(scheme, portString) ],
           << >>,
           IF rest # << >> /\ rest[1] \in { "/", "\\" } THEN Tail(rest) ELSE rest)

\* the index of the ":" before the port, 0 when there is none: the first
\* ":" after the "]" of a bracketed host
PortColon(hostport) ==
    IF hostport # << >> /\ hostport[1] = "[" /\ IndexOfAny(hostport, { "]" }) > 0
    THEN IF IndexOfAny(Slice(hostport, IndexOfAny(hostport, { "]" })), { ":" }) = 0
         THEN 0
         ELSE IndexOfAny(hostport, { "]" })
              + IndexOfAny(Slice(hostport, IndexOfAny(hostport, { "]" })), { ":" })
    ELSE IndexOfAny(hostport, { ":" })

ParseHostPort(scheme, username, password, hostport, pcolon, rest) ==
    ParseHost(scheme, username, password,
              IF pcolon = 0 THEN hostport ELSE SubSeq(hostport, 1, pcolon - 1),
              IF pcolon = 0 THEN << >> ELSE Slice(hostport, pcolon),
              rest)

\* the credentials before the last "@" of the authority: username, and a
\* password after the first ":"
ParseCredentials(scheme, credentials, colon, hostport, rest) ==
    ParseHostPort(scheme,
                  IF colon = 0 THEN credentials ELSE SubSeq(credentials, 1, colon - 1),
                  IF colon = 0 THEN << >> ELSE Slice(credentials, colon),
                  hostport, PortColon(hostport), rest)

ParseAuthorityAt(scheme, authority, at, rest) ==
    ParseCredentials(scheme,
                     IF at = 0 THEN << >> ELSE SubSeq(authority, 1, at - 1),
                     IF at = 0 THEN 0
                     ELSE IndexOfAny(SubSeq(authority, 1, at - 1), { ":" }),
                     Slice(authority, at), rest)

ParseAuthorityEnd(scheme, s, e) ==
    ParseAuthorityAt(scheme,
                     IF e = 0 THEN s ELSE SubSeq(s, 1, e - 1),
                     LastIndexOfAny(IF e = 0 THEN s ELSE SubSeq(s, 1, e - 1), { "@" }),
                     IF e = 0 THEN << >> ELSE Slice(s, e - 1))

\* authority state of a special URL: the authority ends at the first "/",
\* "\", "?" or "#"
ParseAuthority(scheme, s) ==
    ParseAuthorityEnd(scheme, s, IndexOfAny(s, { "/", "\\", "?", "#" }))

\* relative state, c = "?": the path of base, the query and fragment of
\* the input
RelativeQuery(base, t) ==
    [ base EXCEPT !.hasQuery = TRUE, !.query = t.query,
                  !.hasFragment = t.hasFragment, !.fragment = t.fragment ]

\* relative state and relative slash state: s has no scheme of its own, or
\* the special scheme of base without "//" after it
ParseRelative(s, base) ==
    IF s = << >>
    THEN [ base EXCEPT !.hasFragment = FALSE, !.fragment = << >> ]
    ELSE IF s[1] \in { "/", "\\" }
    THEN IF Len(s) >= 2 /\ s[2] \in { "/", "\\" }
         THEN ParseAuthority(base.scheme, SkipSlashes(s))
         ELSE ParsePath(base, << >>, Tail(s))
    ELSE IF s[1] = "?"
    THEN RelativeQuery(base, ParseTail(s))
    ELSE IF s[1] = "#"
    THEN [ base EXCEPT !.hasFragment = TRUE,
                       !.fragment = EncodeSet(Tail(s), FragmentEncodeSet) ]
    ELSE ParsePath(base,
                   IF base.path = << >> THEN << >>
                   ELSE SubSeq(base.path, 1, Len(base.path) - 1),
                   s)

\* a URL of a non-special scheme: only its scheme and its opaque origin are
\* modelled
OpaqueURL(scheme, rest) ==
    [ ok |-> TRUE, scheme |-> scheme, username |-> << >>, password |-> << >>,
      host |-> << >>, port |-> -1, path |-> << rest >>,
      hasQuery |-> FALSE, query |-> << >>,
      hasFragment |-> FALSE, fragment |-> << >> ]

\* scheme state: the input has the scheme scheme, and rest after its ":"
URLParseScheme(scheme, rest, base) ==
    IF scheme \notin SpecialSchemes THEN OpaqueURL(scheme, rest)
    ELSE IF scheme = base.scheme /\ ~StartsWith(rest, << "/", "/" >>)
    THEN ParseRelative(rest, base)
    ELSE ParseAuthority(scheme, SkipSlashes(rest))

URLParseAt(s, k, base) ==
    IF k = 0 THEN ParseRelative(s, base)
    ELSE URLParseScheme(LowerStr(SubSeq(s, 1, k - 1)), Slice(s, k), base)

URLParseClean(s, base) == URLParseAt(s, SchemeEnd(s), base)

\* new URL(input, base), base a URL record
URLParse(input, base) == URLParseClean(Preprocess(input), base)

\* url.origin
Origin(u) ==
    IF u.scheme \notin SpecialSchemes THEN << "n","u","l","l" >>
    ELSE u.scheme \o << ":", "/", "/" >> \o u.host
         \o (IF u.port < 0 THEN << >> ELSE << ":" >> \o DecimalString(u.port))

\* url.pathname
Pathname(u) ==
    IF u.scheme \notin SpecialSchemes THEN u.path[1]
    ELSE Flatten([ i \in 1..Len(u.path) |-> << "/" >> \o u.path[i] ])

\* url.hash
Hash(u) == IF u.fragment = << >> THEN << >> ELSE << "#" >> \o u.fragment

\* url.href: the URL serializer
Href(u) ==
    IF u.scheme \notin SpecialSchemes THEN u.scheme \o << ":" >> \o u.path[1]
    ELSE u.scheme \o << ":", "/", "/" >>
         \o (IF u.username # << >> \/ u.password # << >>
             THEN u.username
                  \o (IF u.password # << >> THEN << ":" >> \o u.password ELSE << >>)
                  \o << "@" >>
             ELSE << >>)
         \o u.host
         \o (IF u.port < 0 THEN << >> ELSE << ":" >> \o DecimalString(u.port))
         \o Pathname(u)
         \o (IF u.hasQuery THEN << "?" >> \o u.query ELSE << >>)
         \o (IF u.hasFragment THEN << "#" >> \o u.fragment ELSE << >>)

\* url.pathname = v: the path is parsed again from the path start state,
\* where "?" and "#" are path characters
SetPathnameClean(u, s) ==
    [ u EXCEPT !.path =
        PathSegments(<< >>,
                     Split(IF s # << >> /\ s[1] \in { "/", "\\" } THEN Tail(s) ELSE s,
                           { "/", "\\" })) ]

SetPathname(u, v) ==
    IF u.scheme \notin SpecialSchemes THEN u
    ELSE SetPathnameClean(u, RemoveChars(v, TabOrNewline))

\* url.searchParams: the application/x-www-form-urlencoded parser, a
\* sequence of name-value pairs
FormDecode(s) ==
    PercentDecode([ i \in 1..Len(s) |-> IF s[i] = "+" THEN " " ELSE s[i] ])

NameValue(p, e) ==
    [ name |-> FormDecode(IF e = 0 THEN p ELSE SubSeq(p, 1, e - 1)),
      value |-> FormDecode(IF e = 0 THEN << >> ELSE Slice(p, e)) ]

RECURSIVE SearchParamsOf(_)
SearchParamsOf(parts) ==
    IF parts = << >> THEN << >>
    ELSE (IF parts[1] = << >> THEN << >>
          ELSE << NameValue(parts[1], IndexOfAny(parts[1], { "=" })) >>)
         \o SearchParamsOf(Tail(parts))

SearchParams(u) == SearchParamsOf(Split(u.query, { "&" }))

\* the placeholder authority 'http://n' as a URL record
DummyBase ==
    [ ok |-> TRUE, scheme |-> << "h","t","t","p" >>, username |-> << >>,
      password |-> << >>, host |-> << "n" >>, port |-> -1, path |-> << << >> >>,
      hasQuery |-> FALSE, query |-> << >>,
      hasFragment |-> FALSE, fragment |-> << >> ]

\* ------------------------------------------------------------------------
\* The utilities resolveHref imports.  Their files are not part of the
\* excerpt; they are modelled after the contracts of section 6 of the
\* specification.
\* ------------------------------------------------------------------------

\* window.location's origin, the origin isLocalURL compares with
LocationOrigin ==
    [ DummyBase EXCEPT !.host = << "h" >> ]

\* the configured basePath (none)
BasePath == << >>

\* isAbsoluteUrl: /^[a-zA-Z][a-zA-Z\d+\-.]*?:/ on the raw string
isAbsoluteUrl(url) == SchemeEnd(url) > 0

\* hasBasePath(path)
hasBasePath(path) == path = BasePath \/ StartsWith(path, BasePath \o << "/" >>)

SameOriginAsLocation(resolved) ==
    /\ resolved.ok
    /\ Origin(resolved) = Origin(LocationOrigin)
    /\ hasBasePath(Pathname(resolved))

\* isLocalTarget: a string without a scheme is local; one with a scheme is
\* local when it resolves to the location's origin; a URL that does not
\* parse is not local
isLocalURL(url) ==
    IF ~isAbsoluteUrl(url) THEN TRUE
    ELSE SameOriginAsLocation(URLParse(url, LocationOrigin))

\* s with every run of two or more "/" collapsed to one "/"
RECURSIVE CollapseSlashes(_)
CollapseSlashes(s) ==
    IF s = << >> THEN << >>
    ELSE IF Len(s) >= 2 /\ s[1] = "/" /\ s[2] = "/" THEN CollapseSlashes(Tail(s))
    ELSE << s[1] >> \o CollapseSlashes(Tail(s))

NormalizeParts(parts) ==
    CollapseSlashes([ i \in 1..Len(parts[1]) |->
                        IF parts[1][i] = "\\" THEN "/" ELSE parts[1][i] ])
    \o (IF Len(parts) > 1 /\ parts[2] # << >>
        THEN << "?" >> \o Join(Tail(parts), << "?" >>) ELSE << >>)

\* collapseRepeatedSeparators: in the part before the first "?", every
\* backslash becomes "/" and repeated "/" collapse; the query stays
normalizeRepeatedSlashes(url) == NormalizeParts(Split(url, { "?" }))

\* removeTrailingSlash: one trailing "/" removed, "/" for the empty result
removeTrailingSlash(route) ==
    IF route = << "/" >> \/ route = << >> THEN << "/" >>
    ELSE IF EndsWith(route, << "/" >>) THEN SubSeq(route, 1, Len(route) - 1)
    ELSE route

NormalizeAt(path, q) ==
    IF q = 0 THEN removeTrailingSlash(path)
    ELSE removeTrailingSlash(SubSeq(path, 1, q - 1)) \o Slice(path, q - 1)

\* normalizeTrailingSlash under the always-absent policy: the path part of
\* a path that starts with "/" loses its trailing slash
normalizePathTrailingSlash(path) ==
    IF ~StartsWith(path, << "/" >>) THEN path
    ELSE NormalizeAt(path, IndexOfAny(path, { "?", "#" }))

AnyDynamicSegment(segs) ==
    \E i \in 2..Len(segs) :
        /\ Len(segs[i]) >= 3
        /\ segs[i][1] = "["
        /\ segs[i][Len(segs[i])] = "]"

\* isDynamicRoutePattern: /\/\[[^/]+?\](?=\/|$)/, a segment "[...]" with
\* something between the brackets
isDynamicRoute(route) == AnyDynamicSegment(Split(route, { "/" }))

AddParam(query, p) ==
    IF \E i \in 1..Len(query) : query[i].key = p.name
    THEN [ i \in 1..Len(query) |->
             IF query[i].key = p.name
             THEN [ query[i] EXCEPT !.value = Append(@, p.value) ]
             ELSE query[i] ]
    ELSE Append(query, [ key |-> p.name, value |-> << p.value >> ])

\* searchParamsToUrlQuery: the name-value pairs as a key/value mapping in
\* order of first appearance; value holds every value given for the key
\* (one value: a string, several: an array)
RECURSIVE searchParamsToUrlQuery(_)
searchParamsToUrlQuery(searchParams) ==
    IF searchParams = << >> THEN << >>
    ELSE AddParam(searchParamsToUrlQuery(SubSeq(searchParams, 1, Len(searchParams) - 1)),
                  searchParams[Len(searchParams)])

HasKey(query, k) == \E i \in 1..Len(query) : query[i].key = k

ValueOf(query, k) == query[CHOOSE i \in 1..Len(query) : query[i].key = k].value

\* omit(object, keys)
RECURSIVE omit(_, _)
omit(query, keys) ==
    IF query = << >> THEN << >>
    ELSE (IF query[1].key \in keys THEN << >> ELSE << query[1] >>)
         \o omit(Tail(query), keys)

ParameterOf(param, optional, repeat) ==
    [ key |-> IF repeat THEN Slice(param, 3) ELSE param,
      repeat |-> repeat, optional |-> optional ]

ParseInner(param, optional) ==
    ParameterOf(param, optional, StartsWith(param, << ".", ".", "." >>))

\* the dynamic groups of a route: a segment "[key]", "[...key]" or
\* "[[...key]]" is a parameter
parseParameter(param) ==
    IF StartsWith(param, << "[" >>) /\ EndsWith(param, << "]" >>)
    THEN ParseInner(SubSeq(param, 2, Len(param) - 1), TRUE)
    ELSE ParseInner(param, FALSE)

AddGroup(groups, g) ==
    IF \E i \in 1..Len(groups) : groups[i].key = g.key
    THEN [ i \in 1..Len(groups) |-> IF groups[i].key = g.key THEN g ELSE groups[i] ]
    ELSE Append(groups, g)

RECURSIVE GroupsOf(_)
GroupsOf(segs) ==
    IF segs = << >> THEN << >>
    ELSE IF StartsWith(segs[Len(segs)], << "[" >>) /\ EndsWith(segs[Len(segs)], << "]" >>)
    THEN AddGroup(GroupsOf(SubSeq(segs, 1, Len(segs) - 1)),
                  parseParameter(SubSeq(segs[Len(segs)], 2, Len(segs[Len(segs)]) - 1)))
    ELSE GroupsOf(SubSeq(segs, 1, Len(segs) - 1))

getRouteGroups(route) == GroupsOf(Split(Slice(removeTrailingSlash(route), 1), { "/" }))

\* s.replace(pattern, replacement) for a string pattern: the first
\* occurrence
ReplaceAt(s, i, n, replacement) ==
    IF i = 0 THEN s ELSE SubSeq(s, 1, i - 1) \o replacement \o Slice(s, i + n - 1)

FirstOccurrence(s, pattern) ==
    IF \E i \in 1..(Len(s) - Len(pattern) + 1) : SubSeq(s, i, i + Len(pattern) - 1) = pattern
    THEN CHOOSE i \in 1..(Len(s) - Len(pattern) + 1) :
            /\ SubSeq(s, i, i + Len(pattern) - 1) = pattern
            /\ \A j \in 1..(i - 1) : SubSeq(s, j, j + Len(pattern) - 1) # pattern
    ELSE 0

ReplaceFirst(s, pattern, replacement) ==
    ReplaceAt(s, FirstOccurrence(s, pattern), Len(pattern), replacement)

\* the text "[key]", "[...key]", "[[...key]]" or "/[[...key]]" a group
\* stands for in the route
ReplacedText(g, value) ==
    (IF g.optional /\ value = << << >> >> THEN << "/" >> ELSE << >>)
    \o (IF g.optional THEN << "[" >> ELSE << >>)
    \o << "[" >> \o (IF g.repeat THEN << ".", ".", "." >> ELSE << >>) \o g.key \o << "]" >>
    \o (IF g.optional THEN << "]" >> ELSE << >>)

\* the text that replaces it
ValueText(g, value) ==
    IF g.repeat
    THEN Join([ i \in 1..Len(value) |-> encodeURIComponent(value[i]) ], << "/" >>)
    ELSE encodeURIComponent(Join(value, << "," >>))

OrSlash(r) == IF r = << >> THEN << "/" >> ELSE r

InterpolateOne(route, g, value) ==
    OrSlash(ReplaceFirst(route, ReplacedText(g, value), ValueText(g, value)))

RECURSIVE InterpolateGroups(_, _, _)
InterpolateGroups(route, groups, query) ==
    IF groups = << >> THEN route
    ELSE InterpolateGroups(
           InterpolateOne(route, groups[1],
                          IF HasKey(query, groups[1].key)
                          THEN ValueOf(query, groups[1].key) ELSE << << >> >>),
           Tail(groups), query)

InterpolateWith(route, groups, query) ==
    [ params |-> { groups[i].key : i \in 1..Len(groups) },
      result |-> IF \A i \in 1..Len(groups) :
                        groups[i].optional \/ HasKey(query, groups[i].key)
                 THEN InterpolateGroups(route, groups, query)
                 ELSE << >> ]

\* interpolate(pattern, pattern, queryMap): every placeholder replaced by
\* the value the query gives for its key; no result ('') when the query
\* lacks a key that is not optional.  params are the keys of all
\* placeholders.
interpolateAs(route, asPathname, query) ==
    InterpolateWith(route, getRouteGroups(route), query)

\* String(urlQueryToSearchParams(query)): the form-urlencoded serialisation
QueryString(query) ==
    Join(Flatten([ i \in 1..Len(query) |->
                     [ j \in 1..Len(query[i].value) |->
                         FormEncode(query[i].key) \o << "=" >>
                         \o FormEncode(query[i].value[j]) ] ]),
         << "&" >>)

\* formatTarget: the serialisation of a structured target with the fields
\* auth, pathname, query and hash.  auth is percent-encoded before anything
\* else, which throws on a lone surrogate.
formatThrows(urlObj) == encodeURIComponentThrows(urlObj.auth)

FormatParts(pathname, query, hash) ==
    EncodeSet(pathname, { "?", "#" })
    \o (IF query = << >> THEN << >> ELSE << "?" >> \o query)
    \o (IF hash # << >> /\ hash[1] # "#" THEN << "#" >> \o hash ELSE hash)

formatWithValidation(urlObj) ==
    FormatParts(urlObj.pathname, QueryString(urlObj.query), urlObj.hash)

\* ------------------------------------------------------------------------
\* resolveHref(router, href, resolveAs), statement by statement
\* ------------------------------------------------------------------------

\* A target is a string or a structured url object.
StringTarget(s) ==
    [ kind |-> "string", str |-> s, pathname |-> << >>, query |-> << >>,
      hash |-> << >>, auth |-> << >> ]

ObjectTarget(pathname, query, hash, auth) ==
    [ kind |-> "object", str |-> << >>, pathname |-> pathname, query |-> query,
      hash |-> hash, auth |-> auth ]

\* What a call returns: a string (val holds it) or an array of strings.
NoReturn == [ kind |-> "none", val |-> << >> ]

ReturnString(s) == [ kind |-> "string", val |-> << s >> ]

ReturnArray(a) == [ kind |-> "array", val |-> a ]

\* line 33: typeof href === 'string' ? href : formatWithValidation(href)
SerializeThrows(href) == href.kind = "object" /\ formatThrows(href)

Serialize(href) ==
    IF href.kind = "string" THEN href.str ELSE formatWithValidation(href)

\* line 37: urlAsString.match(/^[a-zA-Z]{1,}:\/\//), the matched text
\* (empty for no match); i is the index of the first character that is no
\* letter
ProtoMatchAt(s, i) ==
    IF i > 1 /\ Len(s) >= i + 2 /\ SubSeq(s, i, i + 2) = << ":", "/", "/" >>
    THEN SubSeq(s, 1, i + 2) ELSE << >>

urlProtoMatch(s) == ProtoMatchAt(s, IndexOfAny(s, Range(s) \ Alpha))

\* lines 38-40
urlAsStringNoProto(s) == Slice(s, Len(urlProtoMatch(s)))

\* line 42
urlParts(s) == Split(urlAsStringNoProto(s), { "?" })

\* a test for repeated slashes that overlooks backslashes
MatchesRepeated_SlashesOnly(part) == Contains(part, << "/", "/" >>)

\* line 44: (urlParts[0] || '').match(/(\/\/|\\)/)
MatchesRepeated(part) ==
    \/ Contains(part, << "/", "/" >>)
    \/ Contains(part, << "\\" >>)

HasRepeatedSlashes(s) == MatchesRepeated(urlParts(s)[1])

\* lines 48-49
normalizedUrl(s) == urlProtoMatch(s) \o normalizeRepeatedSlashes(urlAsStringNoProto(s))

\* lines 44-50: the diagnostics emitted, and urlAsString afterwards
RepairStep(s) ==
    IF HasRepeatedSlashes(s)
    THEN [ errors |-> << s >>, urlAsString |-> normalizedUrl(s) ]
    ELSE [ errors |-> << >>, urlAsString |-> s ]

\* an early return that forgets the array form
NonLocalReturn_StringOnly(resolveAs, s) == ReturnString(s)

\* line 54
NonLocalReturn(resolveAs, s) ==
    IF resolveAs THEN ReturnArray(<< s >>) ELSE ReturnString(s)

\* a base chosen the wrong way round
BaseInput_Swapped(router, s) ==
    IF StartsWith(s, << "#" >>) THEN router.pathname ELSE router.asPath

\* line 59: urlAsString.startsWith('#') ? router.asPath : router.pathname
BaseInput(router, s) ==
    IF StartsWith(s, << "#" >>) THEN router.asPath ELSE router.pathname

\* lines 62-65
BaseOrRoot(b) == IF b.ok THEN b ELSE URLParse(<< "/" >>, DummyBase)

\* lines 57-65
BaseStep(router, s) == BaseOrRoot(URLParse(BaseInput(router, s), DummyBase))

\* line 69
NormalizedPathname(u) ==
    IF u.ok THEN SetPathname(u, normalizePathTrailingSlash(Pathname(u))) ELSE u

\* lines 68-69
FinalUrl(s, base) == NormalizedPathname(URLParse(s, base))

\* lines 72-76
ShouldInterpolate(finalUrl, resolveAs) ==
    isDynamicRoute(Pathname(finalUrl)) /\ resolveAs

\* an as that keeps the consumed parameters in its query
FormatInterpolated_KeepQuery(i, query, hash) ==
    IF i.result # << >>
    THEN formatWithValidation(ObjectTarget(i.result, query, hash, << >>))
    ELSE << >>

\* lines 85-91
FormatInterpolated(i, query, hash) ==
    IF i.result # << >>
    THEN formatWithValidation(ObjectTarget(i.result, omit(query, i.params), hash, << >>))
    ELSE << >>

\* lines 77-91
InterpolateQuery(pathname, query, hash) ==
    FormatInterpolated(interpolateAs(pathname, pathname, query), query, hash)

\* lines 70-92
InterpolatedAs(finalUrl, resolveAs) ==
    IF ShouldInterpolate(finalUrl, resolveAs)
    THEN InterpolateQuery(Pathname(finalUrl),
                          searchParamsToUrlQuery(SearchParams(finalUrl)),
                          Hash(finalUrl))
    ELSE << >>

\* lines 95-98
ResolvedHref(finalUrl, base) ==
    IF Origin(finalUrl) = Origin(base)
    THEN Slice(Href(finalUrl), Len(Origin(finalUrl)))
    ELSE Href(finalUrl)

\* a pair without the fallback of as to href
ResolvedReturn_NoFallback(resolveAs, resolvedHref, interpolatedAs) ==
    IF resolveAs
    THEN ReturnArray(<< resolvedHref, interpolatedAs >>)
    ELSE ReturnString(resolvedHref)

\* a pair with as in the place of href
ResolvedReturn_AsFirst(resolveAs, resolvedHref, interpolatedAs) ==
    IF resolveAs
    THEN ReturnArray(<< IF interpolatedAs # << >> THEN interpolatedAs ELSE resolvedHref,
                        resolvedHref >>)
    ELSE ReturnString(resolvedHref)

\* lines 100-102
ResolvedReturn(resolveAs, resolvedHref, interpolatedAs) ==
    IF resolveAs
    THEN ReturnArray(<< resolvedHref,
                        IF interpolatedAs # << >> THEN interpolatedAs ELSE resolvedHref >>)
    ELSE ReturnString(resolvedHref)

\* a failure answered with an array whatever resolveAs is
CaughtReturn_AlwaysArray(resolveAs, s) == ReturnArray(<< s >>)

\* line 104
CaughtReturn(resolveAs, s) ==
    IF resolveAs THEN ReturnArray(<< s >>) ELSE ReturnString(s)

Resolved(finalUrl, interpolatedAs, resolvedHref, resolveAs) ==
    [ finalUrl |-> finalUrl, interpolatedAs |-> interpolatedAs, path |-> "resolved",
      ret |-> ResolvedReturn(resolveAs, resolvedHref, interpolatedAs) ]

\* lines 67-105, finalUrl being the URL of lines 68-69 or the failure to
\* construct it
ResolveWith(s, base, resolveAs, finalUrl) ==
    IF finalUrl.ok
    THEN Resolved(finalUrl, InterpolatedAs(finalUrl, resolveAs),
                  ResolvedHref(finalUrl, base), resolveAs)
    ELSE [ finalUrl |-> finalUrl, interpolatedAs |-> << >>, path |-> "caught",
           ret |-> CaughtReturn(resolveAs, s) ]

\* lines 67-105
ResolveStep(s, base, resolveAs) == ResolveWith(s, base, resolveAs, FinalUrl(s, base))

\* the call's outcome on lines 57-105
Returned(res, errs) ==
    [ thrown |-> FALSE, ret |-> res.ret, errors |-> errs, path |-> res.path ]

\* lines 53-105, r being the outcome of lines 37-50
AfterRepair(rt, r, ra) ==
    IF ~isLocalURL(r.urlAsString)
    THEN [ thrown |-> FALSE, ret |-> NonLocalReturn(ra, r.urlAsString),
           errors |-> r.errors, path |-> "nonlocal" ]
    ELSE Returned(ResolveStep(r.urlAsString, BaseStep(rt, r.urlAsString), ra), r.errors)

\* lines 26-106: the whole call.  path names the statement the call ended
\* at.
resolveHref(rt, h, ra) ==
    IF SerializeThrows(h)
    THEN [ thrown |-> TRUE, ret |-> NoReturn, errors |-> << >>, path |-> "thrown" ]
    ELSE AfterRepair(rt, RepairStep(Serialize(h)), ra)

\* ------------------------------------------------------------------------
\* Inputs
\* ------------------------------------------------------------------------

\* the longest enumerated target, in tokens
MaxParts == 3

Tokens ==
    { << "/" >>, << "\\" >>, << "?" >>, << "#" >>, << "\t" >>, << "n" >>,
      << "[", "n", "]" >>, << "n", "=", "n" >>, << ":" >>, << "@" >>, << "." >> }

RECURSIVE TokenStrings(_)
TokenStrings(k) ==
    IF k = 0 THEN { << >> }
    ELSE { s \o t : s \in TokenStrings(k - 1), t \in Tokens \cup { << >> } }

\* targets of the specification's examples, and longer ones of the same
\* shapes
ExampleTargets ==
    { << "h","t","t","p","s",":","/","/","e","x","a","m","p","l","e",".","c","o","m","/","x" >>,
      << "h","t","t","p","s",":","/","/","e","x","a","m","p","l","e",".","c","o","m","/","/","x" >>,
      << "/","/","e","v","i","l",".","c","o","m","\\","p","a","t","h" >>,
      << "/","p","o","s","t","s","/","[","i","d","]","?","i","d","=","5","&","s","o","r","t","=","a","s","c" >>,
      << "/","p","o","s","t","s","/","[","i","d","]","/","?","s","o","r","t","=","a","s","c","#","t" >>,
      << "#","s","e","c","t","i","o","n" >>,
      << "h","t","t","p",":","/","/","h","/","a","/","?","b" >>,
      << "h","t","t","p",":","/","/","h","/","\\","a" >>,
      << "h","t","t","p",":","n" >>,
      << "/","\t","/","u","@","n","/","x" >>,
      << "/","a","/","\t","/","b" >>,
      << "\\","\t","/","[" >>,
      << " ","a","/",".",".","/","b"," ","c","/" >> }

Targets ==
    { StringTarget(s) : s \in TokenStrings(MaxParts) \cup ExampleTargets }
    \cup { ObjectTarget(p, q, h, a) :
             p \in { << "/", "[", "n", "]" >>, << "/", "n", "/", "/", "n", "?" >> },
             q \in { << >>,
                     << [ key |-> << "n" >>, value |-> << << "n", " ", "/" >> >> ],
                        [ key |-> << "x" >>, value |-> << << "1" >>, << "2" >> >> ] >> },
             h \in { << >>, << "t" >> },
             a \in { << >>, << "u" >>, << LoneSurrogate >> } }

\* router states: an ordinary one, one on a dynamic route whose asPath
\* does not parse, and one whose pathname does not parse
Routers ==
    { [ pathname |-> << "/", "d", "/", "p" >>,
        asPath |-> << "/", "a", "/", "b", "?", "x", "=", "1" >> ],
      [ pathname |-> << "/", "p", "o", "s", "t", "s", "/", "[", "i", "d", "]" >>,
        asPath |-> << "/", "/" >> ],
      [ pathname |-> << "/", "/" >>, asPath |-> << >> ] }

\* ------------------------------------------------------------------------
\* The state machine: one call of resolveHref
\* ------------------------------------------------------------------------

VARIABLES
    router,          \* the router argument
    href,            \* the href argument
    resolveAs,       \* the resolveAs argument
    pc,              \* the statement the call is at
    urlAsString,     \* the local variable urlAsString
    errors,          \* the hrefs console.error was called with
    localArg,        \* the arguments isLocalURL was called with
    base,            \* the local variable base
    bases,           \* the inputs a base URL was constructed from
    finalUrl,        \* the local variable finalUrl
    interpolatedAs,  \* the local variable interpolatedAs
    ret,             \* the value returned
    thrown,          \* an exception left the call
    path             \* the statement the call ended at

vars == << router, href, resolveAs, pc, urlAsString, errors, localArg, base,
           bases, finalUrl, interpolatedAs, ret, thrown, path >>

Init ==
    /\ router \in Routers
    /\ href \in Targets
    /\ resolveAs \in BOOLEAN
    /\ pc = "serialize"
    /\ urlAsString = << >>
    /\ errors = << >>
    /\ localArg = << >>
    /\ base = Failure
    /\ bases = << >>
    /\ finalUrl = Failure
    /\ interpolatedAs = << >>
    /\ ret = NoReturn
    /\ thrown = FALSE
    /\ path = "none"

\* line 33
SerializeAction ==
    /\ pc = "serialize"
    /\ IF SerializeThrows(href)
       THEN /\ thrown' = TRUE
            /\ path' = "thrown"
            /\ pc' = "done"
            /\ UNCHANGED urlAsString
       ELSE /\ urlAsString' = Serialize(href)
            /\ pc' = "repair"
            /\ UNCHANGED << thrown, path >>
    /\ UNCHANGED << router, href, resolveAs, errors, localArg, base, bases,
                    finalUrl, interpolatedAs, ret >>

\* lines 37-50
RepairAction ==
    /\ pc = "repair"
    /\ \E r \in { RepairStep(urlAsString) } :
           /\ urlAsString' = r.urlAsString
           /\ errors' = errors \o r.errors
    /\ pc' = "local"
    /\ UNCHANGED << router, href, resolveAs, localArg, base, bases, finalUrl,
                    interpolatedAs, ret, thrown, path >>

\* lines 53-55
LocalAction ==
    /\ pc = "local"
    /\ localArg' = Append(localArg, urlAsString)
    /\ IF ~isLocalURL(urlAsString)
       THEN /\ ret' = NonLocalReturn(resolveAs, urlAsString)
            /\ path' = "nonlocal"
            /\ pc' = "done"
       ELSE /\ pc' = "base"
            /\ UNCHANGED << ret, path >>
    /\ UNCHANGED << router, href, resolveAs, urlAsString, errors, base, bases,
                    finalUrl, interpolatedAs, thrown >>

\* lines 57-65
BaseAction ==
    /\ pc = "base"
    /\ base' = BaseStep(router, urlAsString)
    /\ bases' = Append(bases, BaseInput(router, urlAsString))
    /\ pc' = "resolve"
    /\ UNCHANGED << router, href, resolveAs, urlAsString, errors, localArg,
                    finalUrl, interpolatedAs, ret, thrown, path >>

\* lines 67-105
ResolveAction ==
    /\ pc = "resolve"
    /\ \E res \in { ResolveStep(urlAsString, base, resolveAs) } :
           /\ finalUrl' = res.finalUrl
           /\ interpolatedAs' = res.interpolatedAs
           /\ ret' = res.ret
           /\ path' = res.path
    /\ pc' = "done"
    /\ UNCHANGED << router, href, resolveAs, urlAsString, errors, localArg,
                    base, bases, thrown >>

Next ==
    \/ SerializeAction
    \/ RepairAction
    \/ LocalAction
    \/ BaseAction
    \/ ResolveAction

Spec == Init /\ [][Next]_vars


\* ------------------------------------------------------------------------
\* Properties
\* ------------------------------------------------------------------------

Done == pc = "done"

\* the target as a string (line 33)
Target == Serialize(href)

\* what a call returns for the string s: s itself, or [s]
Single(s) == IF resolveAs THEN ReturnArray(<< s >>) ELSE ReturnString(s)

\* the part of s after a leading scheme:// and before the first "?"
\* contains "//" or a backslash
RepeatedInPathOnly(s) ==
    \E i \in (Len(urlProtoMatch(s)) + 1)..Len(s) :
        /\ \A j \in (Len(urlProtoMatch(s)) + 1)..i : s[j] # "?"
        /\ \/ s[i] = "\\"
           \/ i < Len(s) /\ s[i] = "/" /\ s[i + 1] = "/"

\* path, query and fragment of a URL, as serialised
PathQueryHash(u) ==
    Pathname(u)
    \o (IF u.hasQuery THEN << "?" >> \o u.query ELSE << >>)
    \o (IF u.hasFragment THEN << "#" >> \o u.fragment ELSE << >>)

\* the names of a sequence of name-value pairs
Names(params) == { params[i].name : i \in 1..Len(params) }

ExternalExample ==
    << "h","t","t","p","s",":","/","/","e","x","a","m","p","l","e",".","c","o","m","/","x" >>

DynamicExample ==
    << "/","p","o","s","t","s","/","[","i","d","]","?","i","d","=","5","&","s","o","r","t","=","a","s","c" >>

DynamicExampleAs ==
    << "/","p","o","s","t","s","/","5","?","s","o","r","t","=","a","s","c" >>

HashExample == << "#","s","e","c","t","i","o","n" >>

HashExampleAsPath == << "/", "a", "/", "b", "?", "x", "=", "1" >>

C2_InterpolatedAs ==
    (Done /\ resolveAs /\ path = "resolved"
          /\ isDynamicRoute(Pathname(finalUrl))
          /\ \A i \in 1..Len(getRouteGroups(Pathname(finalUrl))) :
                 getRouteGroups(Pathname(finalUrl))[i].key \in Names(SearchParams(finalUrl)))
    => /\ Len(ret.val) = 2
       /\ ParseTail(ret.val[2]).path
            = interpolateAs(Pathname(finalUrl), Pathname(finalUrl),
                            searchParamsToUrlQuery(SearchParams(finalUrl))).result
       /\ ParseTail(ret.val[2]).path # Pathname(finalUrl)
       /\ Names(SearchParamsOf(Split(ParseTail(ret.val[2]).query, { "&" })))
            = Names(SearchParams(finalUrl))
              \ { getRouteGroups(Pathname(finalUrl))[i].key :
                    i \in 1..Len(getRouteGroups(Pathname(finalUrl))) }
       /\ \A i \in 1..Len(SearchParams(finalUrl)) :
              \/ \E j \in 1..Len(getRouteGroups(Pathname(finalUrl))) :
                     getRouteGroups(Pathname(finalUrl))[j].key = SearchParams(finalUrl)[i].name
              \/ \E j \in 1..Len(SearchParamsOf(Split(ParseTail(ret.val[2]).query, { "&" }))) :
                     SearchParamsOf(Split(ParseTail(ret.val[2]).query, { "&" }))[j]
                       = SearchParams(finalUrl)[i]
       /\ EndsWith(ret.val[1], PathQueryHash(finalUrl))
       /\ href = StringTarget(DynamicExample)
            => ret.val = << DynamicExample, DynamicExampleAs >>

C2_Witness ==
    /\ Done
    /\ resolveAs
    /\ href = StringTarget(DynamicExample)
    /\ ret = ReturnArray(<< DynamicExample, DynamicExampleAs >>)

\* C3 as stated: no exception propagates out of resolveHref; every call
\* ends by returning a string or an array.
C3_NeverThrows ==
    Done => (~thrown /\ ret.kind \in { "string", "array" })

\* C4 as stated: when resolving the target against the base fails, the
\* original input target is returned unchanged, also when the
\* repeated-slash repair was applied before the failure.
C4_OriginalReturned ==
    (Done /\ path = "caught") => ret = Single(Target)

\* C4 amended: when resolving the target against the base fails, the value
\* returned is the target string as it stands after the repeated-slash
\* repair, alone (the string itself, or a one-element array): the original
\* input when no repair was applied, the repaired string when one was.
C4_RepairedReturned ==
    (Done /\ path = "caught")
    => /\ ~finalUrl.ok
       /\ ret = Single(urlAsString)
       /\ ~RepeatedInPathOnly(Target) => ret = Single(Target)
       /\ RepeatedInPathOnly(Target)
            => ret = Single(urlProtoMatch(Target)
                            \o normalizeRepeatedSlashes(urlAsStringNoProto(Target)))

C4_Witness ==
    /\ Done
    /\ path = "caught"
    /\ resolveAs
    /\ errors # << >>
    /\ ret = ReturnArray(<< urlAsString >>)
    /\ urlAsString # href.str

\* C5: the diagnostic is emitted at most once a call, and it is emitted,
\* with the repair, exactly when the path-only portion of the
\* scheme-stripped target contains "//" or a backslash; isLocalURL is
\* evaluated on the repaired string with the scheme prefix reattached.
C5_DiagnosticOnce ==
    /\ Len(errors) <= 1
    /\ Len(localArg) <= 1
    /\ pc \in { "serialize", "repair" } => errors = << >> /\ localArg = << >>
    /\ (pc \notin { "serialize", "repair" } /\ ~thrown)
       => /\ errors = (IF RepeatedInPathOnly(Target) THEN << Target >> ELSE << >>)
          /\ ~RepeatedInPathOnly(Target) => urlAsString = Target
          /\ RepeatedInPathOnly(Target)
               => /\ urlAsString = urlProtoMatch(Target)
                        \o normalizeRepeatedSlashes(urlAsStringNoProto(Target))
                  /\ urlAsString # Target
                  /\ urlProtoMatch(urlAsString) = urlProtoMatch(Target)
                  /\ ~RepeatedInPathOnly(urlAsString)
          /\ pc # "local" => localArg = << urlAsString >>

C5_Witness ==
    /\ Done
    /\ href = StringTarget(<< "h","t","t","p",":","/","/","h","/","\\","a" >>)
    /\ errors = << href.str >>
    /\ localArg = << << "h","t","t","p",":","/","/","h","/","a" >> >>

\* C6: when resolveAs returns a pair, as is never empty: it is the
\* interpolated string when interpolation applied and gave a result, and
\* href otherwise.
C6_AsNeverEmpty ==
    (Done /\ resolveAs /\ ret.kind = "array" /\ Len(ret.val) = 2)
    => /\ ret.val[2] # << >>
       /\ ret.val[1] # << >>
       /\ IF /\ isDynamicRoute(Pathname(finalUrl))
             /\ interpolateAs(Pathname(finalUrl), Pathname(finalUrl),
                              searchParamsToUrlQuery(SearchParams(finalUrl))).result # << >>
          THEN interpolatedAs # << >> /\ ret.val[2] = interpolatedAs
          ELSE interpolatedAs = << >> /\ ret.val[2] = ret.val[1]

C6_Witness ==
    /\ Done
    /\ resolveAs
    /\ Len(ret.val) = 2
    /\ isDynamicRoute(Pathname(finalUrl))
    /\ interpolatedAs = << >>
    /\ ret.val[2] = ret.val[1]
    /\ ret.val[2] # << >>

\* C7 as stated: a canonical local href, the href resolveHref returns for
\* a target that resolved within the placeholder origin, resolves to
\* itself, and the second resolution emits no diagnostic.
C7_Idempotent ==
    (Done /\ ~resolveAs /\ path = "resolved" /\ Origin(finalUrl) = Origin(base))
    => /\ resolveHref(router, StringTarget(ret.val[1]), FALSE).ret = ret
       /\ resolveHref(router, StringTarget(ret.val[1]), FALSE).errors = << >>

C9_ResolutionBase ==
    /\ pc \in { "serialize", "repair", "local", "base" } => bases = << >>
    /\ pc = "resolve"
       => /\ bases = << IF urlAsString # << >> /\ urlAsString[1] = "#"
                        THEN router.asPath ELSE router.pathname >>
          /\ base.ok
          /\ Origin(base) = << "h","t","t","p",":","/","/","n" >>
          /\ IF URLParse(bases[1], DummyBase).ok
             THEN base = URLParse(bases[1], DummyBase)
             ELSE Href(base) = << "h","t","t","p",":","/","/","n","/" >>
    /\ (Done /\ bases # << >>) => ret.kind \in { "string", "array" }
    /\ (Done /\ href = StringTarget(HashExample) /\ router.asPath = HashExampleAsPath)
       => ret.val[1] = HashExampleAsPath \o HashExample

C9_Witness ==
    /\ Done
    /\ href = StringTarget(HashExample)
    /\ router.asPath = HashExampleAsPath
    /\ bases = << HashExampleAsPath >>
    /\ ret.val[1] = HashExampleAsPath \o HashExample

\* C10 as stated: after a successful resolution the href returned is only
\* the path, query and hash of the resolved URL when its origin equals the
\* base's origin, and the full resolved URL when the origins differ.
C10_PathQueryHash ==
    (Done /\ path = "resolved")
    => ret.val[1] = (IF Origin(finalUrl) = Origin(base)
                     THEN PathQueryHash(finalUrl) ELSE Href(finalUrl))

====
